---- MODULE Spec2Model ----
(***************************************************************************)
(* Model of src/libcw/libcw_debug.py (unixcw 3.5.1): the script reads a    *)
(* debug log, builds the table input_events (timestamp -> event name) with *)
(* a synthesized predecessor sample for every event, and prints the table  *)
(* as tab-separated rows, forward-filling the Tone and TQ columns.         *)
(*                                                                         *)
(* An event name is modelled as a sequence of chunks, so that the prefix   *)
(* test re.match("CW_DEBUG_EVENT_TONE", name) is a prefix test here too.   *)
(* A timestamp field is a sequence of decimal digits, parsed as int() does.*)
(***************************************************************************)
EXTENDS Integers, Sequences, FiniteSets, TLC

VARIABLES
    lines,                \* the lines of the file the for loop has read so far
    input_events,         \* dict: timestamp -> event name
    tone_event_present,
    tone_event_previous,
    tq_event_present,
    tq_event_previous,
    stderr,               \* diagnostics printed so far
    stdout,               \* rows printed so far (header first), each a sequence of cells
    pc                    \* "ingest" | "done" | "crashed"

vars == <<lines, input_events, tone_event_present, tone_event_previous,
          tq_event_present, tq_event_previous, stderr, stdout, pc>>

----------------------------------------------------------------------------
(* Bounds of the model *)

MaxLines == 3

----------------------------------------------------------------------------
(* Event names *)

TONE_PREFIX == <<"CW_DEBUG_EVENT", "TONE">>
TQ_PREFIX == <<"CW_DEBUG_EVENT", "TQ">>

TONE_LOW == <<"CW_DEBUG_EVENT", "TONE", "LOW">>
TONE_MID == <<"CW_DEBUG_EVENT", "TONE", "MID">>
TONE_HIGH == <<"CW_DEBUG_EVENT", "TONE", "HIGH">>
TQ_JUST_EMPTIED == <<"CW_DEBUG_EVENT", "TQ", "JUST_EMPTIED">>
TQ_NONEMPTY == <<"CW_DEBUG_EVENT", "TQ", "NONEMPTY">>
TQ_STILL_EMPTY == <<"CW_DEBUG_EVENT", "TQ", "STILL_EMPTY">>

\* The name the emission pass resets the TQ cursor to (line 119).
TQ_STILL_NEMPTY == <<"CW_DEBUG_EVENT", "TQ", "STILL_NEMPTY">>

\* Names that are no key of event_values, as a log may contain them.
TONE_FOO == <<"CW_DEBUG_EVENT", "TONE", "FOO">>
EVENT_FOO == <<"CW_DEBUG_EVENT", "FOO">>

event_values ==
    (TONE_LOW :> "0") @@ (TONE_MID :> "1") @@ (TONE_HIGH :> "2") @@
    (TQ_JUST_EMPTIED :> "0") @@ (TQ_NONEMPTY :> "1") @@ (TQ_STILL_EMPTY :> "2")

\* re.match(prefix, name): the name starts with the prefix.
StartsWith(name, prefix) ==
    /\ Len(name) >= Len(prefix)
    /\ SubSeq(name, 1, Len(prefix)) = prefix

----------------------------------------------------------------------------
(* Input lines *)

\* int(m.group(1)) on a string of decimal digits.
RECURSIVE ParseInt(_)
ParseInt(digits) ==
    IF digits = <<>> THEN 0
    ELSE 10 * ParseInt(SubSeq(digits, 1, Len(digits) - 1)) + digits[Len(digits)]

TimeTexts == {<<0, 9>>, <<1, 0>>, <<2, 0>>}

Tokens == {TONE_LOW, TONE_MID, TONE_HIGH,
           TQ_JUST_EMPTIED, TQ_NONEMPTY, TQ_STILL_EMPTY,
           TONE_FOO, EVENT_FOO}

\* A line is its leading tag, its timestamp field and the rest of the line.
EventLines == [tag : {"libcwevent:"}, time : TimeTexts, token : Tokens]

\* Log noise: a line that lacks the colon after the tag.
NoiseLines == {[tag |-> "libcwevent", time |-> <<1, 0>>, token |-> TONE_MID]}

Lines == EventLines \cup NoiseLines

\* re.match("^libcwevent:\t([0-9]+)\t(.+)", line)
Matches(line) ==
    /\ line.tag = "libcwevent:"
    /\ Len(line.time) >= 1
    /\ Len(line.token) >= 1

IsToneLine(line) == Matches(line) /\ StartsWith(line.token, TONE_PREFIX)
IsTqLine(line) ==
    Matches(line) /\ ~StartsWith(line.token, TONE_PREFIX) /\ StartsWith(line.token, TQ_PREFIX)
IsUnknownLine(line) ==
    Matches(line) /\ ~StartsWith(line.token, TONE_PREFIX) /\ ~StartsWith(line.token, TQ_PREFIX)

----------------------------------------------------------------------------
(* Ingestion pass *)

\* dict item assignment d[k] = v
Put(d, k, v) == [x \in (DOMAIN d) \cup {k} |-> IF x = k THEN v ELSE d[x]]

\* The collision messages of one record, tested before either write.
Collisions(d, time, label) ==
    (IF time \in DOMAIN d THEN <<label \o " collision 1">> ELSE <<>>) \o
    (IF time - 1 \in DOMAIN d THEN <<label \o " collision 2">> ELSE <<>>)

\* The ingestion state as one record.
Cur ==
    [input_events |-> input_events,
     tone_event_present |-> tone_event_present,
     tone_event_previous |-> tone_event_previous,
     tq_event_present |-> tq_event_present,
     tq_event_previous |-> tq_event_previous,
     stderr |-> stderr,
     pc |-> pc]

InitState ==
    [input_events |-> <<>>,
     tone_event_present |-> FALSE,
     tone_event_previous |-> TONE_LOW,
     tq_event_present |-> FALSE,
     tq_event_previous |-> TQ_STILL_EMPTY,
     stderr |-> <<>>,
     pc |-> "ingest"]

\* Variant of ToneBranch that forgets line 88: the cursor keeps its old value.
ToneBranch_StaleCursor(s, time, event) ==
    [s EXCEPT
        !.tone_event_present = TRUE,
        !.stderr = s.stderr \o Collisions(s.input_events, time, "Tone"),
        !.input_events = Put(Put(s.input_events, time - 1, s.tone_event_previous), time, event)]

\* Variant of ToneBranch in which an entry already at `time` is kept.
ToneBranch_FirstWins(s, time, event) ==
    [s EXCEPT
        !.tone_event_present = TRUE,
        !.stderr = s.stderr \o Collisions(s.input_events, time, "Tone"),
        !.input_events =
            IF time \in DOMAIN s.input_events
            THEN Put(s.input_events, time - 1, s.tone_event_previous)
            ELSE Put(Put(s.input_events, time - 1, s.tone_event_previous), time, event),
        !.tone_event_previous = event]

ToneBranch(s, time, event) ==
    [s EXCEPT
        !.tone_event_present = TRUE,
        !.stderr = s.stderr \o Collisions(s.input_events, time, "Tone"),
        !.input_events = Put(Put(s.input_events, time - 1, s.tone_event_previous), time, event),
        !.tone_event_previous = event]

\* Variant of TqBranch that tests for collisions after its two writes.
TqBranch_CheckAfterWrite(s, time, event) ==
    LET written == Put(Put(s.input_events, time - 1, s.tq_event_previous), time, event) IN
    [s EXCEPT
        !.tq_event_present = TRUE,
        !.stderr = s.stderr \o Collisions(written, time, "TQ"),
        !.input_events = written,
        !.tq_event_previous = event]

TqBranch(s, time, event) ==
    [s EXCEPT
        !.tq_event_present = TRUE,
        !.stderr = s.stderr \o Collisions(s.input_events, time, "TQ"),
        !.input_events = Put(Put(s.input_events, time - 1, s.tq_event_previous), time, event),
        !.tq_event_previous = event]

\* The else branch: the message is printed; the bare name `exit` is an
\* expression that calls nothing, so the loop goes on.
\* Variant of UnknownBranch in which exit is called: the script ends here.
UnknownBranch_Exits(s, token) ==
    [s EXCEPT !.stderr = Append(s.stderr, <<"Unknown type of debug event: ", token>>),
              !.pc = "done"]

UnknownBranch(s, token) ==
    [s EXCEPT !.stderr = Append(s.stderr, <<"Unknown type of debug event: ", token>>)]

\* One iteration of the for loop over the file.
IngestLine(s, line) ==
    IF ~Matches(line) THEN s
    ELSE IF StartsWith(line.token, TONE_PREFIX)
        THEN ToneBranch(s, ParseInt(line.time), line.token)
    ELSE IF StartsWith(line.token, TQ_PREFIX)
        THEN TqBranch(s, ParseInt(line.time), line.token)
    ELSE UnknownBranch(s, line.token)

----------------------------------------------------------------------------
(* Emission pass *)

RECURSIVE sorted(_)
sorted(S) ==
    IF S = {} THEN <<>>
    ELSE LET m == CHOOSE x \in S : \A y \in S : x <= y
         IN <<m>> \o sorted(S \ {m})

Header(tonePresent, tqPresent) ==
    <<"Time">> \o (IF tonePresent THEN <<"Tone">> ELSE <<>>)
               \o (IF tqPresent THEN <<"TQ">> ELSE <<>>)

\* One column of one row: the name whose code is looked up in event_values,
\* and the cursor after the cell.
CellName(prefix, entry, previous) ==
    IF StartsWith(entry, prefix) THEN entry ELSE previous

\* The rows from position i of keys on.  A failed event_values lookup raises
\* KeyError: the cells of the row printed before it stay on stdout, the
\* traceback goes to stderr and the script ends.
RECURSIVE EmitRows(_, _, _, _, _, _, _, _)
EmitRows(d, keys, i, tonePresent, tqPresent, tonePrev, tqPrev, o) ==
    IF i > Len(keys)
    THEN [stdout |-> o.stdout, stderr |-> o.stderr, pc |-> "done",
          tone_event_previous |-> tonePrev, tq_event_previous |-> tqPrev]
    ELSE
    LET time == keys[i]
        entry == d[time]
        toneName == CellName(TONE_PREFIX, entry, tonePrev)
        tqName == CellName(TQ_PREFIX, entry, tqPrev)
        row0 == <<time>>
        row1 == IF tonePresent THEN Append(row0, event_values[toneName]) ELSE row0
        row2 == IF tqPresent THEN Append(row1, event_values[tqName]) ELSE row1
        tonePrev1 == IF tonePresent THEN toneName ELSE tonePrev
        tqPrev1 == IF tqPresent THEN tqName ELSE tqPrev
    IN  IF tonePresent /\ toneName \notin DOMAIN event_values
        THEN [stdout |-> Append(o.stdout, row0),
              stderr |-> Append(o.stderr, <<"KeyError: ", toneName>>),
              pc |-> "crashed",
              tone_event_previous |-> tonePrev, tq_event_previous |-> tqPrev]
        ELSE IF tqPresent /\ tqName \notin DOMAIN event_values
        THEN [stdout |-> Append(o.stdout, row1),
              stderr |-> Append(o.stderr, <<"KeyError: ", tqName>>),
              pc |-> "crashed",
              tone_event_previous |-> tonePrev1, tq_event_previous |-> tqPrev]
        ELSE EmitRows(d, keys, i + 1, tonePresent, tqPresent, tonePrev1, tqPrev1,
                      [stdout |-> Append(o.stdout, row2), stderr |-> o.stderr])

\* Lines 116-171: cursor reset, header, rows.
EmitTable(s) ==
    EmitRows(s.input_events, sorted(DOMAIN s.input_events), 1,
             s.tone_event_present, s.tq_event_present,
             TONE_LOW, TQ_STILL_NEMPTY,
             [stdout |-> <<Header(s.tone_event_present, s.tq_event_present)>>,
              stderr |-> s.stderr])

----------------------------------------------------------------------------
(* The state machine *)

Init ==
    /\ lines = <<>>
    /\ input_events = InitState.input_events
    /\ tone_event_present = InitState.tone_event_present
    /\ tone_event_previous = InitState.tone_event_previous
    /\ tq_event_present = InitState.tq_event_present
    /\ tq_event_previous = InitState.tq_event_previous
    /\ stderr = InitState.stderr
    /\ stdout = <<>>
    /\ pc = InitState.pc

\* The loop body on `line`, whatever its branch.
Step(line) ==
    LET s == IngestLine(Cur, line) IN
    /\ lines' = Append(lines, line)
    /\ input_events' = s.input_events
    /\ tone_event_present' = s.tone_event_present
    /\ tone_event_previous' = s.tone_event_previous
    /\ tq_event_present' = s.tq_event_present
    /\ tq_event_previous' = s.tq_event_previous
    /\ stderr' = s.stderr
    /\ pc' = s.pc
    /\ UNCHANGED stdout

CanRead == pc = "ingest" /\ Len(lines) < MaxLines

SkipLine == CanRead /\ \E line \in Lines : ~Matches(line) /\ Step(line)

IngestTone == CanRead /\ \E line \in Lines : IsToneLine(line) /\ Step(line)

IngestTq == CanRead /\ \E line \in Lines : IsTqLine(line) /\ Step(line)

IngestUnknown == CanRead /\ \E line \in Lines : IsUnknownLine(line) /\ Step(line)

\* End of file: the emission pass runs.
Emission ==
    /\ pc = "ingest"
    /\ LET r == EmitTable(Cur) IN
        /\ stdout' = r.stdout
        /\ stderr' = r.stderr
        /\ pc' = r.pc
        /\ tone_event_previous' = r.tone_event_previous
        /\ tq_event_previous' = r.tq_event_previous
    /\ UNCHANGED <<lines, input_events, tone_event_present, tq_event_present>>

Next == SkipLine \/ IngestTone \/ IngestTq \/ IngestUnknown \/ Emission

Spec == Init /\ [][Next]_vars

----------------------------------------------------------------------------
(* Vocabulary of the properties *)

EvLine(time, token) == [tag |-> "libcwevent:", time |-> time, token |-> token]

Recognized(line) == IsToneLine(line) \/ IsTqLine(line)

TimeOf(line) == ParseInt(line.time)

\* A read step appends one line; this is the line.
ReadStep == lines' # lines
LastRead == lines'[Len(lines')]

\* Every event line names one of the six variants of event_values.
AllKnown(ls) ==
    \A k \in 1..Len(ls) : Matches(ls[k]) => ls[k].token \in DOMAIN event_values

\* The log is in time order.
Chronological(ls) ==
    \A j, k \in 1..Len(ls) :
        (j < k /\ Matches(ls[j]) /\ Matches(ls[k])) => TimeOf(ls[j]) <= TimeOf(ls[k])

\* No two records of one category carry the same timestamp.
OnePerTimestamp(ls) ==
    \A j, k \in 1..Len(ls) :
        (j < k /\ Recognized(ls[j]) /\ Recognized(ls[k])
               /\ IsToneLine(ls[j]) = IsToneLine(ls[k])) => TimeOf(ls[j]) # TimeOf(ls[k])

\* The whole ingestion pass over a sequence of lines.
RECURSIVE Run(_)
Run(ls) ==
    IF ls = <<>> THEN InitState
    ELSE IngestLine(Run(SubSeq(ls, 1, Len(ls) - 1)), ls[Len(ls)])

RECURSIVE WithoutUnknown(_)
WithoutUnknown(ls) ==
    IF ls = <<>> THEN <<>>
    ELSE IF IsUnknownLine(ls[Len(ls)])
        THEN WithoutUnknown(SubSeq(ls, 1, Len(ls) - 1))
        ELSE Append(WithoutUnknown(SubSeq(ls, 1, Len(ls) - 1)), ls[Len(ls)])

Keys == sorted(DOMAIN input_events)
EmissionEnded == pc \in {"done", "crashed"}

\* Column of a category in a row, 0 when the category has no column.
ToneColumn == IF tone_event_present THEN 2 ELSE 0
TqColumn == IF ~tq_event_present THEN 0 ELSE IF tone_event_present THEN 3 ELSE 2

----------------------------------------------------------------------------
(* C3: one recognized record (T, V) of category C leaves table[T-1] = the  *)
(* value C's cursor had before, table[T] = V and C's cursor = V; the other *)
(* category's cursor and every other table entry are unchanged.  The Tone  *)
(* records (10, Mid), (20, High) give exactly 9->Low, 10->Mid, 19->Mid,    *)
(* 20->High.                                                               *)

C3_Step ==
    (ReadStep /\ Recognized(LastRead)) =>
        LET T == TimeOf(LastRead)
            V == LastRead.token
            tone == IsToneLine(LastRead)
        IN  /\ input_events'[T - 1] =
                   (IF tone THEN tone_event_previous ELSE tq_event_previous)
            /\ input_events'[T] = V
            /\ IF tone
               THEN tone_event_previous' = V /\ tq_event_previous' = tq_event_previous
               ELSE tq_event_previous' = V /\ tone_event_previous' = tone_event_previous
            /\ DOMAIN input_events' = (DOMAIN input_events) \cup {T - 1, T}
            /\ \A k \in (DOMAIN input_events) \ {T - 1, T} :
                   input_events'[k] = input_events[k]

C3_Example ==
    lines = <<EvLine(<<1, 0>>, TONE_MID), EvLine(<<2, 0>>, TONE_HIGH)>> =>
        input_events = (9 :> TONE_LOW) @@ (10 :> TONE_MID) @@
                       (19 :> TONE_MID) @@ (20 :> TONE_HIGH)

C3_IngestionStep == [][C3_Step]_vars /\ []C3_Example

C3_Witness ==
    /\ lines = <<EvLine(<<1, 0>>, TONE_MID), EvLine(<<2, 0>>, TONE_HIGH)>>
    /\ DOMAIN input_events = {9, 10, 19, 20}
    /\ tone_event_previous = TONE_HIGH
    /\ pc = "ingest"

----------------------------------------------------------------------------
(* C6: a recognized record with timestamp T read while the table has an    *)
(* entry at T prints a collision message, the loop goes on, the record's   *)
(* name is the entry at T afterwards, and it stays the entry at T as long  *)
(* as no later record has timestamp T or T+1.                              *)

C6_Step ==
    (ReadStep /\ Recognized(LastRead) /\ TimeOf(LastRead) \in DOMAIN input_events) =>
        /\ Len(stderr') > Len(stderr)
        /\ stderr'[Len(stderr) + 1] =
               (IF IsToneLine(LastRead) THEN "Tone collision 1" ELSE "TQ collision 1")
        /\ pc' = "ingest"
        /\ input_events'[TimeOf(LastRead)] = LastRead.token

C6_Remains ==
    \A k \in 1..Len(lines) :
        (/\ Recognized(lines[k])
         /\ \A j \in (k + 1)..Len(lines) :
                Recognized(lines[j]) =>
                    TimeOf(lines[j]) \notin {TimeOf(lines[k]), TimeOf(lines[k]) + 1})
        => /\ TimeOf(lines[k]) \in DOMAIN input_events
           /\ input_events[TimeOf(lines[k])] = lines[k].token

C6_SameTimestampCollision == [][C6_Step]_vars /\ []C6_Remains

C6_Witness ==
    /\ lines = <<EvLine(<<1, 0>>, TONE_MID), EvLine(<<1, 0>>, TONE_HIGH),
                 EvLine(<<2, 0>>, TONE_LOW)>>
    /\ stderr = <<"Tone collision 1", "Tone collision 2">>
    /\ input_events[10] = TONE_HIGH
    /\ pc = "done"

----------------------------------------------------------------------------
(* C7: an event line whose name starts with neither prefix prints one      *)
(* message and changes neither the table, the cursors nor the flags; the   *)
(* loop goes on, and table, flags, cursors and output are those of the     *)
(* same input without the unrecognized lines.                              *)

C7_Step ==
    (ReadStep /\ IsUnknownLine(LastRead)) =>
        /\ stderr' = Append(stderr, <<"Unknown type of debug event: ", LastRead.token>>)
        /\ UNCHANGED <<input_events, tone_event_present, tone_event_previous,
                       tq_event_present, tq_event_previous, stdout>>
        /\ pc' = "ingest"

C7_AsIfAbsent ==
    LET r == Run(WithoutUnknown(lines)) IN
    /\ input_events = r.input_events
    /\ tone_event_present = r.tone_event_present
    /\ tq_event_present = r.tq_event_present
    /\ DOMAIN input_events =
           UNION {{TimeOf(lines[k]), TimeOf(lines[k]) - 1} :
                      k \in {i \in 1..Len(lines) : Recognized(lines[i])}}
    /\ pc = "ingest" =>
           /\ tone_event_previous = r.tone_event_previous
           /\ tq_event_previous = r.tq_event_previous
    /\ EmissionEnded =>
           /\ stdout = EmitTable(r).stdout
           /\ pc = EmitTable(r).pc

C7_UnrecognizedToken == [][C7_Step]_vars /\ []C7_AsIfAbsent

C7_Witness ==
    /\ lines = <<EvLine(<<0, 9>>, EVENT_FOO), EvLine(<<2, 0>>, TONE_MID)>>
    /\ stderr = <<<<"Unknown type of debug event: ", EVENT_FOO>>>>
    /\ stdout = <<<<"Time", "Tone">>, <<19, "0">>, <<20, "1">>>>
    /\ pc = "done"

----------------------------------------------------------------------------
(* C9: a recognized record with timestamp T prints the same-timestamp      *)
(* message exactly when the table has an entry at T and the predecessor    *)
(* message exactly when it has one at T-1, both decided on the table as it *)
(* was before the record's writes; no entry changes without a message; the *)
(* record is written and the loop goes on.  No other line prints a         *)
(* collision message.                                                      *)

CollisionMessages == {"Tone collision 1", "Tone collision 2",
                      "TQ collision 1", "TQ collision 2"}

C9_Step ==
    ReadStep =>
        IF Recognized(LastRead)
        THEN LET T == TimeOf(LastRead)
                 label == IF IsToneLine(LastRead) THEN "Tone" ELSE "TQ"
             IN  /\ stderr' = stderr
                        \o (IF T \in DOMAIN input_events
                            THEN <<label \o " collision 1">> ELSE <<>>)
                        \o (IF T - 1 \in DOMAIN input_events
                            THEN <<label \o " collision 2">> ELSE <<>>)
                 /\ \A k \in DOMAIN input_events :
                        input_events'[k] # input_events[k] => Len(stderr') > Len(stderr)
                 /\ input_events'[T] = LastRead.token
                 /\ pc' = "ingest"
        ELSE \A i \in (Len(stderr) + 1)..Len(stderr') : stderr'[i] \notin CollisionMessages

C9_CollisionReporting == [][C9_Step]_vars

C9_Witness ==
    /\ lines = <<EvLine(<<1, 0>>, TONE_MID), EvLine(<<0, 9>>, TQ_NONEMPTY),
                 EvLine(<<1, 0>>, TQ_JUST_EMPTIED)>>
    /\ stderr = <<"TQ collision 1", "TQ collision 1", "TQ collision 2">>
    /\ input_events = (8 :> TQ_STILL_EMPTY) @@ (9 :> TQ_NONEMPTY) @@ (10 :> TQ_JUST_EMPTIED)
    /\ pc = "ingest"

----------------------------------------------------------------------------
(* C1: in every printed row with timestamp t, the cell of every active     *)
(* category is the code of that category's event with the greatest         *)
(* timestamp <= t (the last one read among equals), or of the category's   *)
(* default (Tone Low, TQ StillEmpty) when there is none.  Stated for logs  *)
(* in time order whose names are all among the six variants and in which   *)
(* no category has two events at one timestamp, and for the cells that     *)
(* were printed.                                                           *)

EventsUpTo(isCategory(_), t) ==
    {k \in 1..Len(lines) : isCategory(lines[k]) /\ TimeOf(lines[k]) <= t}

MostRecent(idx) ==
    CHOOSE k \in idx : \A j \in idx :
        \/ TimeOf(lines[j]) < TimeOf(lines[k])
        \/ (TimeOf(lines[j]) = TimeOf(lines[k]) /\ j <= k)

MostRecentCode(isCategory(_), default, t) ==
    LET idx == EventsUpTo(isCategory, t) IN
    IF idx = {} THEN event_values[default]
    ELSE event_values[lines[MostRecent(idx)].token]

C1_MostRecentEvent ==
    (AllKnown(lines) /\ Chronological(lines) /\ OnePerTimestamp(lines)) =>
        \A r \in 2..Len(stdout) :
            LET row == stdout[r] IN
            /\ (ToneColumn # 0 /\ Len(row) >= ToneColumn) =>
                   row[ToneColumn] = MostRecentCode(IsToneLine, TONE_LOW, row[1])
            /\ (TqColumn # 0 /\ Len(row) >= TqColumn) =>
                   row[TqColumn] = MostRecentCode(IsTqLine, TQ_STILL_EMPTY, row[1])

----------------------------------------------------------------------------
(* C2: once emission has ended, every row whose table entry is not of an   *)
(* active category C has a C cell, and the cell is the code of the C entry *)
(* of the nearest earlier row holding one, or of C's ingestion default     *)
(* (Tone Low, TQ StillEmpty) when no earlier row holds one.  Stated for    *)
(* logs whose names are all among the six variants.                        *)

FillCode(i, prefix, default) ==
    LET earlier == {j \in 1..(i - 1) : StartsWith(input_events[Keys[j]], prefix)} IN
    IF earlier = {} THEN event_values[default]
    ELSE event_values[input_events[Keys[CHOOSE j \in earlier : \A h \in earlier : h <= j]]]

Filled(i, column, prefix, default) ==
    (column # 0 /\ ~StartsWith(input_events[Keys[i]], prefix)) =>
        /\ Len(stdout) >= i + 1
        /\ Len(stdout[i + 1]) >= column
        /\ stdout[i + 1][column] = FillCode(i, prefix, default)

C2_ForwardFill ==
    (AllKnown(lines) /\ EmissionEnded) =>
        \A i \in 1..Len(Keys) :
            /\ Filled(i, ToneColumn, TONE_PREFIX, TONE_LOW)
            /\ Filled(i, TqColumn, TQ_PREFIX, TQ_STILL_EMPTY)

----------------------------------------------------------------------------
(* C4: once emission has ended, the header has the Tone column iff a Tone  *)
(* line was read and the TQ column iff a TQ line was read, in the order    *)
(* Time, Tone, TQ, and every data row has one cell per header column.      *)
(* Stated for logs whose names are all among the six variants.             *)

C4_ColumnPresence ==
    (AllKnown(lines) /\ EmissionEnded) =>
        /\ stdout[1] = Header(\E k \in 1..Len(lines) : IsToneLine(lines[k]),
                              \E k \in 1..Len(lines) : IsTqLine(lines[k]))
        /\ \A r \in 2..Len(stdout) : Len(stdout[r]) = Len(stdout[1])

----------------------------------------------------------------------------
(* C5: emission runs to completion and prints one row per table key, in    *)
(* strictly ascending order; the keys are the timestamps T and T-1 of the  *)
(* recognized records.  Stated for logs whose names are all among the six  *)
(* variants.                                                               *)

C5_RowSetAndOrder ==
    (AllKnown(lines) /\ EmissionEnded) =>
        /\ pc = "done"
        /\ DOMAIN input_events =
               UNION {{TimeOf(lines[k]), TimeOf(lines[k]) - 1} :
                          k \in {i \in 1..Len(lines) : Recognized(lines[i])}}
        /\ Len(stdout) = Cardinality(DOMAIN input_events) + 1
        /\ \A r \in 2..Len(stdout) : stdout[r][1] \in DOMAIN input_events
        /\ \A r \in 2..(Len(stdout) - 1) : stdout[r][1] < stdout[r + 1][1]

----------------------------------------------------------------------------
(* C10: every name stored in the table is a key of event_values.           *)

C10_KnownVariantsOnly ==
    \A k \in DOMAIN input_events : input_events[k] \in DOMAIN event_values

====
